---- MODULE Spec2Model ----
(***************************************************************************)
(* A model of new_scraper_upsc_A.py: the response parser inside            *)
(* summarize_and_tag, the trend check is_trending, the spreadsheet updater *)
(* save_to_excel, the duplicate set load_existing_headlines, the driver    *)
(* run_news_pipeline and the loop of start_daily_scheduler.                *)
(*                                                                         *)
(* Text is a sequence of tokens.  A token is one whitespace character      *)
(* (SP, NL), one punctuation character (DOT, COLON), a word, or one of the *)
(* four labels written with its colon ("Summary:" and so on).              *)
(***************************************************************************)
EXTENDS Integers, Sequences, FiniteSets, TLC

SP == " "
NL == "\n"
DOT == "."
COLON == ":"

Whitespace == {SP, NL}
Punctuation == {DOT, COLON}

\* ---------------------------------------------------------------- text

Range(seq) == {seq[i] : i \in 1..Len(seq)}

Last(seq) == seq[Len(seq)]

Min(a, b) == IF a < b THEN a ELSE b

RECURSIVE Flatten(_)
Flatten(seqs) == IF seqs = <<>> THEN <<>> ELSE Head(seqs) \o Flatten(Tail(seqs))

\* str.lower() on one token: only the label tokens have upper-case letters.
Lower(tok) ==
  CASE tok = "Summary:" -> "summary:"
    [] tok = "Tags:" -> "tags:"
    [] tok = "Reporter_Explanation:" -> "reporter_explanation:"
    [] tok = "Hook_30s:" -> "hook_30s:"
    [] OTHER -> tok

RECURSIVE LStrip(_, _)
LStrip(s, chars) ==
  IF s # <<>> /\ Head(s) \in chars THEN LStrip(Tail(s), chars) ELSE s

RECURSIVE RStrip(_, _)
RStrip(s, chars) ==
  IF s # <<>> /\ s[Len(s)] \in chars
    THEN RStrip(SubSeq(s, 1, Len(s) - 1), chars)
    ELSE s

\* str.strip(): leading and trailing whitespace removed.
Strip(s) == RStrip(LStrip(s, Whitespace), Whitespace)

\* str.split(sep) for a one-character separator: always at least one piece.
RECURSIVE SplitOn(_, _)
SplitOn(s, sep) ==
  IF \E i \in 1..Len(s) : s[i] = sep
    THEN LET i == CHOOSE k \in 1..Len(s) :
                    s[k] = sep /\ \A j \in 1..(k - 1) : s[j] # sep
         IN <<SubSeq(s, 1, i - 1)>> \o SplitOn(SubSeq(s, i + 1, Len(s)), sep)
    ELSE <<s>>

\* "\n".join(lines)
RECURSIVE JoinLines(_)
JoinLines(ls) ==
  IF ls = <<>> THEN <<>>
  ELSE IF Len(ls) = 1 THEN ls[1]
  ELSE ls[1] \o <<NL>> \o JoinLines(Tail(ls))

\* ------------------------------------------------------ response parser

\* line.lower().startswith(label): the label with its colon is one token.
StartsWith(line, label) == line # <<>> /\ Lower(line[1]) = label

\* line.split(":")[1]: what lies between the first colon and the second.
AfterFirstColonOnly(line) == SplitOn(Tail(line), COLON)[1]

\* line.split(":", 1)[1]: all that follows the first colon of the line, which
\* is the colon of the label the line starts with.
AfterFirstColon(line) == Tail(line)

ParseInit ==
  [summary |-> <<>>, tags |-> <<>>, reporter_expl |-> <<>>, hook_30s |-> <<>>,
   capture_section |-> "None"]

\* One iteration of the loop over the lines (lines 98-116).
ParseLine(st, rawline) ==
  LET line == Strip(rawline) IN
  IF StartsWith(line, "summary:") THEN
    [st EXCEPT !.summary = Strip(AfterFirstColon(line)),
               !.capture_section = "None"]
  ELSE IF StartsWith(line, "tags:") THEN
    [st EXCEPT !.tags = Strip(AfterFirstColon(line)),
               !.capture_section = "None"]
  ELSE IF StartsWith(line, "reporter_explanation:") THEN
    [st EXCEPT !.capture_section = "reporter", !.reporter_expl = <<>>]
  ELSE IF StartsWith(line, "hook_30s:") THEN
    [st EXCEPT !.capture_section = "hook", !.hook_30s = <<>>]
  ELSE IF st.capture_section = "reporter" THEN
    [st EXCEPT !.reporter_expl = @ \o line \o <<NL>>]
  ELSE IF st.capture_section = "hook" THEN
    [st EXCEPT !.hook_30s = @ \o line \o <<NL>>]
  ELSE st

RECURSIVE ParseLines(_, _)
ParseLines(st, lines) ==
  IF lines = <<>> THEN st ELSE ParseLines(ParseLine(st, Head(lines)), Tail(lines))

\* The body of the try block once the reply is there (lines 95-117).
ParseReply(text) ==
  LET lines == SplitOn(Strip(text), NL)
      st == ParseLines(ParseInit, lines)
  IN [Summary |-> st.summary, Tags |-> st.tags,
      Reporter_Explanation |-> Strip(st.reporter_expl),
      Hook_30s |-> Strip(st.hook_30s)]

EmptyFields ==
  [Summary |-> <<>>, Tags |-> <<>>, Reporter_Explanation |-> <<>>,
   Hook_30s |-> <<>>]

\* summarize_and_tag: gemini is the outcome of generate_content, a reply text
\* or an exception, which the except clause turns into four empty strings.
summarize_and_tag(gemini) ==
  IF gemini.ok THEN ParseReply(gemini.text) ELSE EmptyFields

\* ----------------------------------------------------------- trend check

KeywordLimit == 4
Threshold == 20

RECURSIVE SplitWords(_)
\* str.split() without a separator: the maximal runs of non-whitespace.
SplitWords(s) ==
  LET t == LStrip(s, Whitespace) IN
  IF t = <<>> THEN <<>>
  ELSE IF \E i \in 1..Len(t) : t[i] \in Whitespace
    THEN LET i == CHOOSE k \in 1..Len(t) :
                    t[k] \in Whitespace /\ \A j \in 1..(k - 1) : t[j] \notin Whitespace
         IN <<SubSeq(t, 1, i - 1)>> \o SplitWords(SubSeq(t, i + 1, Len(t)))
    ELSE <<t>>

\* w.strip(".,!?:;")
StripPunctuation(w) == RStrip(LStrip(w, Punctuation), Punctuation)

extract_keywords(title) ==
  LET words == SplitWords(title)
      stripped == [i \in 1..Len(words) |-> StripPunctuation(words[i])]
  IN SubSeq(stripped, 1, IF Len(stripped) < KeywordLimit THEN Len(stripped) ELSE KeywordLimit)

\* A pandas maximum: <<m>>, or NaN when there is nothing to take it of.
NaN == <<>>

RECURSIVE SeqMax(_)
\* max() of a sequence of maxima, NaN skipped (skipna).
SeqMax(vals) ==
  IF vals = <<>> THEN NaN
  ELSE LET rest == SeqMax(Tail(vals)) IN
       IF Head(vals) = NaN THEN rest
       ELSE IF rest = NaN \/ Head(vals)[1] >= rest[1] THEN Head(vals)
       ELSE rest

\* df[keywords].max().max(): df is the sequence of the rows of the frame, a
\* row the interest values of the keywords, in the keywords' order.
MaxInterest(df, keywords) ==
  LET colmax == [k \in 1..Len(keywords) |->
                   SeqMax([r \in 1..Len(df) |-> <<df[r][k]>>])]
  IN SeqMax(colmax)

\* The threshold compared with >= instead of >.
AtLeastThreshold(max_interest) ==
  max_interest # NaN /\ max_interest[1] >= Threshold

\* max_interest > 20: a comparison with NaN is False.
ExceedsThreshold(max_interest) ==
  max_interest # NaN /\ max_interest[1] > Threshold

\* is_trending with an except clause that answers True.
is_trending_fail_open(title, lookup) ==
  LET keywords == extract_keywords(title) IN
  IF ~lookup.ok THEN TRUE
  ELSE IF lookup.df = <<>> THEN FALSE
  ELSE ExceedsThreshold(MaxInterest(lookup.df, keywords))

\* is_trending: lookup is the outcome of build_payload and interest_over_time,
\* a frame or an exception.
is_trending(title, lookup) ==
  LET keywords == extract_keywords(title) IN
  IF ~lookup.ok THEN FALSE
  ELSE IF lookup.df = <<>> THEN FALSE
  ELSE ExceedsThreshold(MaxInterest(lookup.df, keywords))

\* ------------------------------------------------------------ spreadsheet

headers ==
  <<"Title", "Link", "Published Date", "Summary", "Tags",
    "Reporter Explanation (Hinglish)", "30-Second Hook Script (Hinglish)",
    "Trend Status">>

\* The file at OUTPUT_EXCEL: absent, or a workbook, the sequence of its sheets.
NoFile == [exists |-> FALSE, sheets |-> <<>>]

\* Workbook.create_sheet(title): a title the workbook already holds gets the
\* next free number appended.  A sheet's title is its day, its source and that
\* number (0: none).
SheetTitle(wb, day, source_name) ==
  LET same == {i \in 1..Len(wb) :
                 wb[i].title.day = day /\ wb[i].title.source = source_name}
      used == {wb[i].title.n : i \in same}
  IN [day |-> day, source |-> source_name,
      n |-> IF used = {} THEN 0
            ELSE (CHOOSE m \in used : \A k \in used : k <= m) + 1]

ArticleRow(a) ==
  <<a.Title, a.Link, a.Published_Date, a.Summary, a.Tags,
    a.Reporter_Explanation, a.Hook_30s, a.Trend_Status>>

\* save_to_excel appending to the sheet of the same day and source when the
\* workbook has one.
save_to_excel_merging(f, day, source_name, all_articles) ==
  LET wb == IF ~f.exists THEN <<>> ELSE f.sheets
      rows == [i \in 1..Len(all_articles) |-> ArticleRow(all_articles[i])]
      same == {i \in 1..Len(wb) :
                 wb[i].title.day = day /\ wb[i].title.source = source_name}
  IN IF same = {}
       THEN [exists |-> TRUE,
             sheets |-> Append(wb, [title |-> [day |-> day, source |-> source_name, n |-> 0],
                                    rows |-> <<headers>> \o rows,
                                    header_styled |-> TRUE])]
       ELSE LET k == CHOOSE i \in same : TRUE IN
            [exists |-> TRUE,
             sheets |-> [wb EXCEPT ![k].rows = @ \o rows]]

\* save_to_excel: the file after the call.  format_sheet styles the header
\* row of the new sheet and touches no cell value.
save_to_excel(f, day, source_name, all_articles) ==
  LET wb == IF ~f.exists THEN <<>> ELSE f.sheets
      ws == [title |-> SheetTitle(wb, day, source_name),
             rows |-> <<headers>> \o
                      [i \in 1..Len(all_articles) |-> ArticleRow(all_articles[i])],
             header_styled |-> TRUE]
  IN [exists |-> TRUE, sheets |-> Append(wb, ws)]

\* The truth value of a cell.  A cell written as the empty string reads back
\* as the empty string or as an empty cell (None), and both are false: the
\* model keeps the empty string.
Truthy(cell) == cell # <<>>

\* load_existing_headlines
load_existing_headlines(f) ==
  IF ~f.exists THEN {}
  ELSE UNION {{Strip(f.sheets[s].rows[r][1]) :
                 r \in {q \in 2..Len(f.sheets[s].rows) :
                          Truthy(f.sheets[s].rows[q][1])}} :
              s \in 1..Len(f.sheets)}

\* --------------------------------------------------------- pipeline driver

rss_sources == <<"TheHindu", "IndianExpress", "GKToday">>
BatchLimit == 3

Missing == "Missing"
Now == "now"

\* The loop iteration with summarize_and_tag called for every entry.
BuildArticleAlwaysEnrich(entry, title, lookup, gemini) ==
  LET trending == is_trending(title, lookup)
      fields == summarize_and_tag(gemini)
  IN [article |->
        [Title |-> title,
         Link |-> entry.link,
         Published_Date |-> IF entry.published = Missing THEN Now
                            ELSE entry.published,
         Summary |-> fields.Summary,
         Tags |-> fields.Tags,
         Reporter_Explanation |-> fields.Reporter_Explanation,
         Hook_30s |-> fields.Hook_30s,
         Trend_Status |-> IF trending THEN "Trending" ELSE "Not Trending"],
      trend_calls |-> <<title>>,
      gemini_calls |-> <<title>>]

\* The part of one loop iteration after the duplicate and limit checks (lines
\* 264-283): the article record, and the calls made to the two services.
BuildArticle(entry, title, lookup, gemini) ==
  LET trending == is_trending(title, lookup)
      fields == IF trending THEN summarize_and_tag(gemini) ELSE EmptyFields
  IN [article |->
        [Title |-> title,
         Link |-> entry.link,
         Published_Date |-> IF entry.published = Missing THEN Now
                            ELSE entry.published,
         Summary |-> fields.Summary,
         Tags |-> fields.Tags,
         Reporter_Explanation |-> fields.Reporter_Explanation,
         Hook_30s |-> fields.Hook_30s,
         Trend_Status |-> IF trending THEN "Trending" ELSE "Not Trending"],
      trend_calls |-> <<title>>,
      gemini_calls |-> IF trending THEN <<title>> ELSE <<>>]

\* The limit compared with > instead of >=.
AtLimitOffByOne(c) == c > BatchLimit

\* Line 261: the limit of 3 per source.
AtLimit(c) == c >= BatchLimit

\* Every batch saved, the empty one too.
ShouldSaveAlways(batch) == TRUE

\* Line 287: an empty batch is not saved.
ShouldSave(batch) == batch # <<>>

\* ------------------------------------------------------------------ inputs

MaxEntries == 5
MaxRuns == 2

\* Feed entries: a headline with leading whitespace, and a title of
\* whitespace only on an entry without a published date.
FeedEntries ==
  {[title |-> <<SP, "a">>, link |-> "u1", published |-> "p1"],
   [title |-> <<SP>>, link |-> "u2", published |-> Missing]}

\* Outcomes of the trend lookup for a title: an exception, an empty frame, a
\* frame whose values are all the threshold, one whose values are one above.
FrameOf(title, v) ==
  <<[k \in 1..Len(extract_keywords(title)) |-> v]>>

TrendLookups(title) ==
  {[ok |-> FALSE, df |-> <<>>], [ok |-> TRUE, df |-> <<>>],
   [ok |-> TRUE, df |-> FrameOf(title, Threshold)],
   [ok |-> TRUE, df |-> FrameOf(title, Threshold + 1)]}

GoodReply ==
  JoinLines(<< <<"Summary:", SP, "s">>, <<"Tags:", SP, "t">>, <<>>,
               <<"Reporter_Explanation:">>, <<"r">>, <<>>,
               <<"Hook_30s:">>, <<"h">> >>)

\* Outcomes of generate_content: an exception or a reply.
GeminiOutcomes == {[ok |-> FALSE, text |-> <<>>], [ok |-> TRUE, text |-> GoodReply]}

PriorArticle ==
  BuildArticle([title |-> <<"a">>, link |-> "u1", published |-> "p1"], <<"a">>,
               [ok |-> FALSE, df |-> <<>>], [ok |-> FALSE, text |-> <<>>]).article

\* The output file before the first run: none, or what an earlier run on day
\* 0 left.
PriorFiles == {NoFile, save_to_excel(NoFile, 0, rss_sources[1], <<PriorArticle>>)}

\* ------------------------------------------------------------------- state

VARIABLES
  file,                \* the output file
  today,               \* datetime.date.today()
  pc,                  \* where run_news_pipeline is
  existing_headlines,
  srcIdx,              \* the position of source in rss_sources
  feed,                \* the entries of feed.entries the loop has reached
  articles,
  count,
  budget,              \* entries the feeds may still deliver
  runsLeft,            \* runs that may still start
  trendCalls,          \* titles passed to is_trending in this run
  geminiCalls,         \* titles passed to summarize_and_tag in this run
  seenAtStart,         \* first-column values found at the start of some run
  startSheets,         \* the number of sheets at the start of this run
  done,                \* the feeds this run has finished, with their batch sizes
  saveCall,            \* the last direct call of save_to_excel
  reply,               \* an outcome of generate_content: a reply text or a failure
  parsed,              \* what summarize_and_tag returned for it
  trendTitle,          \* a headline
  trendLookup,         \* the outcome of its trend lookup
  trendResult,         \* what is_trending returned for it
  clock,               \* the time, in ticks of the scheduler's sleep
  next_run,            \* the time the scheduled job is next due
  loopPc,              \* where the loop of start_daily_scheduler is
  active,              \* pipeline runs in progress
  jobStart             \* the time the job last started

pipeVars ==
  <<file, today, pc, existing_headlines, srcIdx, feed, articles, count, budget,
    runsLeft, trendCalls, geminiCalls, seenAtStart, startSheets, done>>

saveVars == <<saveCall>>
parseVars == <<reply, parsed>>
trendVars == <<trendTitle, trendLookup, trendResult>>
schedVars == <<clock, next_run, loopPc, active, jobStart>>

vars == <<pipeVars, saveVars, parseVars, trendVars, schedVars>>

\* The variables of the other specifications, at rest.
SaveIdle == saveCall = <<>>
ParseIdle == reply = [ok |-> FALSE, text |-> <<>>] /\ parsed = <<>>
TrendIdle ==
  /\ trendTitle = <<>>
  /\ trendLookup = [ok |-> FALSE, df |-> <<>>]
  /\ trendResult = <<>>
SchedIdle ==
  clock = 0 /\ next_run = 0 /\ loopPc = "off" /\ active = 0 /\ jobStart = 0

\* The first column of the data rows of all sheets, as stored.
FirstColumn(f) ==
  UNION {{f.sheets[s].rows[r][1] : r \in 2..Len(f.sheets[s].rows)} :
         s \in 1..Len(f.sheets)}

PipeInit(files, entries, nruns) ==
  /\ file \in files
  /\ today = 0
  /\ pc = "idle"
  /\ existing_headlines = {}
  /\ srcIdx = 1
  /\ feed = <<>>
  /\ articles = <<>>
  /\ count = 0
  /\ budget = entries
  /\ runsLeft = nruns
  /\ trendCalls = <<>>
  /\ geminiCalls = <<>>
  /\ seenAtStart = {}
  /\ startSheets = Len(file.sheets)
  /\ done = <<>>
  /\ SaveIdle /\ ParseIdle /\ TrendIdle /\ SchedIdle

\* Lines 247-248: a run starts, the first on the day of the prior file, each
\* later one a day after the one before.
StartRun ==
  /\ pc \in {"idle", "done", "crashed"}
  /\ runsLeft > 0
  /\ today' = IF pc = "idle" THEN today ELSE today + 1
  /\ runsLeft' = runsLeft - 1
  /\ existing_headlines' = load_existing_headlines(file)
  /\ srcIdx' = 1
  /\ pc' = "fetch"
  /\ feed' = <<>>
  /\ articles' = <<>>
  /\ count' = 0
  /\ trendCalls' = <<>>
  /\ geminiCalls' = <<>>
  /\ seenAtStart' = seenAtStart \cup FirstColumn(file)
  /\ startSheets' = Len(file.sheets)
  /\ done' = <<>>
  /\ UNCHANGED <<file, budget, saveVars, parseVars, trendVars, schedVars>>

\* Lines 250-254.
FetchFeed ==
  /\ pc = "fetch"
  /\ pc' = "entries"
  /\ feed' = <<>>
  /\ articles' = <<>>
  /\ count' = 0
  /\ UNCHANGED <<file, today, existing_headlines, srcIdx, budget, runsLeft,
                 trendCalls, geminiCalls, seenAtStart, startSheets, done,
                 saveVars, parseVars, trendVars, schedVars>>

\* Lines 256-260: the entry's title is in existing_headlines.
SkipDuplicate ==
  /\ pc = "entries"
  /\ budget > 0
  /\ \E entry \in FeedEntries :
       /\ Strip(entry.title) \in existing_headlines
       /\ feed' = Append(feed, entry)
  /\ budget' = budget - 1
  /\ UNCHANGED <<file, today, pc, existing_headlines, srcIdx, articles, count,
                 runsLeft, trendCalls, geminiCalls, seenAtStart, startSheets, done,
                 saveVars, parseVars, trendVars, schedVars>>

\* Lines 261-262: the break at the limit.
BreakAtLimit ==
  /\ pc = "entries"
  /\ budget > 0
  /\ \E entry \in FeedEntries :
       /\ Strip(entry.title) \notin existing_headlines
       /\ AtLimit(count)
       /\ feed' = Append(feed, entry)
  /\ budget' = budget - 1
  /\ pc' = "save"
  /\ UNCHANGED <<file, today, existing_headlines, srcIdx, articles, count,
                 runsLeft, trendCalls, geminiCalls, seenAtStart, startSheets, done,
                 saveVars, parseVars, trendVars, schedVars>>

\* Lines 264-285: one entry trend-checked, enriched and collected, for given
\* outcomes of the two services.
ProcessWith(entry, lookup, gemini) ==
  LET title == Strip(entry.title)
      b == BuildArticle(entry, title, lookup, gemini)
  IN /\ pc = "entries"
     /\ budget > 0
     /\ title \notin existing_headlines
     /\ ~AtLimit(count)
     /\ articles' = Append(articles, b.article)
     /\ trendCalls' = trendCalls \o b.trend_calls
     /\ geminiCalls' = geminiCalls \o b.gemini_calls
     /\ feed' = Append(feed, entry)
     /\ count' = count + 1
     /\ budget' = budget - 1
     /\ UNCHANGED <<file, today, pc, existing_headlines, srcIdx, runsLeft,
                    seenAtStart, startSheets, done, saveVars, parseVars,
                    trendVars, schedVars>>

ProcessEntry ==
  \E entry \in FeedEntries :
    \E lookup \in TrendLookups(Strip(entry.title)), gemini \in GeminiOutcomes :
      ProcessWith(entry, lookup, gemini)

\* The loop over feed.entries ends.
EndOfFeed ==
  /\ pc = "entries"
  /\ pc' = "save"
  /\ UNCHANGED <<file, today, existing_headlines, srcIdx, feed, articles, count,
                 budget, runsLeft, trendCalls, geminiCalls, seenAtStart,
                 startSheets, done,
                 saveVars, parseVars, trendVars, schedVars>>

\* Lines 287-292.
SaveBatch ==
  /\ pc = "save"
  /\ file' = IF ShouldSave(articles)
               THEN save_to_excel(file, today, rss_sources[srcIdx], articles)
               ELSE file
  /\ done' = Append(done, [source |-> rss_sources[srcIdx], n |-> Len(articles)])
  /\ IF srcIdx < Len(rss_sources)
       THEN srcIdx' = srcIdx + 1 /\ pc' = "fetch"
       ELSE srcIdx' = srcIdx /\ pc' = "done"
  /\ UNCHANGED <<today, existing_headlines, feed, articles, count, budget,
                 runsLeft, trendCalls, geminiCalls, seenAtStart, startSheets,
                 saveVars, parseVars, trendVars, schedVars>>

\* A failure nothing catches ends the run: the feed fetch, an entry without a
\* title or link, the load or save of the file.  The locals of the run and the
\* record of its calls go with it; the file stays as the last save left it.
Fail ==
  /\ pc \in {"fetch", "entries", "save"}
  /\ pc' = "crashed"
  /\ existing_headlines' = {}
  /\ feed' = <<>>
  /\ articles' = <<>>
  /\ count' = 0
  /\ trendCalls' = <<>>
  /\ geminiCalls' = <<>>
  /\ UNCHANGED <<file, today, srcIdx, budget, runsLeft, seenAtStart,
                 startSheets, done, saveVars, parseVars, trendVars, schedVars>>

\* One execution of the program: lines 312-313 run the pipeline once.
Init == PipeInit(PriorFiles, MaxEntries, 1)

\* The program executed again and again on the same output file.
InitRuns == PipeInit({NoFile}, MaxEntries, MaxRuns)

Next ==
  \/ StartRun
  \/ FetchFeed
  \/ SkipDuplicate
  \/ BreakAtLimit
  \/ ProcessEntry
  \/ EndOfFeed
  \/ SaveBatch
  \/ Fail

Spec == Init /\ [][Next]_vars

SpecRuns == InitRuns /\ [][Next]_vars

\* ------------------------------------------------ save_to_excel on its own

MaxSheets == 2
MaxDay == 1

TrendingArticle ==
  BuildArticle([title |-> <<"b">>, link |-> "u2", published |-> Missing], <<"b">>,
               [ok |-> TRUE, df |-> FrameOf(<<"b">>, Threshold + 1)],
               [ok |-> TRUE, text |-> GoodReply]).article

SaveBatches ==
  {<<>>, <<PriorArticle>>, <<PriorArticle, TrendingArticle>>,
   <<TrendingArticle, PriorArticle>>}

\* The pipeline at rest, with no output file yet.
PipeIdle ==
  /\ file = NoFile
  /\ today = 0
  /\ pc = "idle"
  /\ existing_headlines = {}
  /\ srcIdx = 1
  /\ feed = <<>>
  /\ articles = <<>>
  /\ count = 0
  /\ budget = 0
  /\ runsLeft = 0
  /\ trendCalls = <<>>
  /\ geminiCalls = <<>>
  /\ seenAtStart = {}
  /\ startSheets = 0
  /\ done = <<>>

idleVars ==
  <<pc, existing_headlines, srcIdx, feed, articles, count, budget, runsLeft,
    trendCalls, geminiCalls, seenAtStart, startSheets, done>>

InitSave == PipeIdle /\ SaveIdle /\ ParseIdle /\ TrendIdle /\ SchedIdle

\* A call save_to_excel(source_name, all_articles).
DirectSave ==
  /\ Len(file.sheets) < MaxSheets
  /\ \E source_name \in Range(rss_sources), all_articles \in SaveBatches :
       /\ file' = save_to_excel(file, today, source_name, all_articles)
       /\ saveCall' = <<[source_name |-> source_name,
                         all_articles |-> all_articles,
                         day |-> today, before |-> file]>>
  /\ UNCHANGED <<today, idleVars, parseVars, trendVars, schedVars>>

\* datetime.date.today() moves on between two calls.
NextDay ==
  /\ today < MaxDay
  /\ today' = today + 1
  /\ UNCHANGED <<file, saveCall, idleVars, parseVars, trendVars, schedVars>>

NextSave == DirectSave \/ NextDay

SpecSave == InitSave /\ [][NextSave]_vars

\* C3: a call save_to_excel(source, batch) with N records adds exactly one
\* sheet, which holds the 8-column header row and then the N records as rows,
\* in batch order; the sheets the workbook had keep their place, title and
\* rows, a sheet of the same day and source included.
C3_OneNewSheet ==
  saveCall # <<>> =>
    LET call == saveCall[1]
        before == call.before.sheets
        batch == call.all_articles
        ws == Last(file.sheets)
    IN /\ Len(file.sheets) = Len(before) + 1
       /\ \A i \in 1..Len(before) : file.sheets[i] = before[i]
       /\ \A i \in 1..Len(before) : before[i].title # ws.title
       /\ ws.title.day = call.day /\ ws.title.source = call.source_name
       /\ Len(ws.rows) = Len(batch) + 1
       /\ ws.rows[1] = headers /\ Len(headers) = 8
       /\ \A i \in 1..Len(batch) :
            ws.rows[i + 1] =
              <<batch[i].Title, batch[i].Link, batch[i].Published_Date,
                batch[i].Summary, batch[i].Tags, batch[i].Reporter_Explanation,
                batch[i].Hook_30s, batch[i].Trend_Status>>

\* A batch of two saved into a workbook that holds a sheet of the same day and
\* source.
C3_Witness ==
  /\ saveCall # <<>>
  /\ Len(saveCall[1].all_articles) = 2
  /\ \E i \in 1..Len(saveCall[1].before.sheets) :
       /\ saveCall[1].before.sheets[i].title.day = saveCall[1].day
       /\ saveCall[1].before.sheets[i].title.source = saveCall[1].source_name
       /\ Len(saveCall[1].before.sheets[i].rows) > 1

\* --------------------------------------------- summarize_and_tag on its own

MaxLines == 5

\* Lines a reply is made of: the four label lines, with and without text
\* after the colon, in either case, indented or not; a line of content with
\* whitespace around it; an empty line.
ReplyLines ==
  {<<"Summary:", SP, "x", COLON, "y">>,
   <<SP, "tags:", "y", SP>>,
   <<"Reporter_Explanation:">>,
   <<"Reporter_Explanation:", SP, "x">>,
   <<"Hook_30s:">>,
   <<SP, "x", SP>>,
   <<>>}

ReplyTexts ==
  {JoinLines(ls) : ls \in UNION {[1..n -> ReplyLines] : n \in 0..MaxLines}}

InitParse ==
  /\ PipeIdle /\ SaveIdle /\ TrendIdle /\ SchedIdle
  /\ reply \in {[ok |-> FALSE, text |-> <<>>]}
                 \cup {[ok |-> TRUE, text |-> t] : t \in ReplyTexts}
  /\ parsed = <<>>

\* The call summarize_and_tag(headline), for the outcome of generate_content.
Summarize ==
  /\ parsed = <<>>
  /\ parsed' = <<summarize_and_tag(reply)>>
  /\ UNCHANGED <<reply, pipeVars, saveVars, trendVars, schedVars>>

NextParse == Summarize

SpecParse == InitParse /\ [][NextParse]_vars

Labels == {"summary:", "tags:", "reporter_explanation:", "hook_30s:"}

\* The lines of the reply, as text.split("\n") has them.
TextLines == SplitOn(reply.text, NL)

IsLabelLine(line, label) ==
  Strip(line) # <<>> /\ Lower(Strip(line)[1]) = label

LabelLines(label) ==
  {i \in 1..Len(TextLines) : IsLabelLine(TextLines[i], label)}

AnyLabelLines == UNION {LabelLines(l) : l \in Labels}

\* The line after the section that starts at label line i: the next label
\* line, or the end of the text.
SectionEnd(i) ==
  IF \E j \in AnyLabelLines : j > i
    THEN CHOOSE j \in AnyLabelLines :
           j > i /\ \A k \in AnyLabelLines : k > i => j <= k
    ELSE Len(TextLines) + 1

Parsed == parsed[1]

AllLabelsOccur == \A l \in Labels : LabelLines(l) # {}

EachLabelOnce == \A l \in Labels : Cardinality(LabelLines(l)) = 1

\* The section of a label as C4 delimits it: what follows the colon on the
\* label line and the lines after it up to the next label line, trimmed.
WholeSection(label) ==
  LET i == CHOOSE k \in LabelLines(label) : TRUE
      j == SectionEnd(i)
  IN Strip(JoinLines(<<Tail(Strip(TextLines[i]))>>
                       \o SubSeq(TextLines, i + 1, j - 1)))

LastLabelLine(label) ==
  CHOOSE i \in LabelLines(label) : \A k \in LabelLines(label) : k <= i

\* What a one-line field keeps: the rest of its last label line.
LineSection(label) == Strip(Tail(Strip(TextLines[LastLabelLine(label)])))

\* What a multi-line field keeps: the lines after its last label line up to
\* the next label line, each trimmed and ended by a newline, the whole
\* trimmed.
BlockSection(label) ==
  LET i == LastLabelLine(label)
      j == SectionEnd(i)
  IN Strip(Flatten([k \in 1..(j - 1 - i) |-> Strip(TextLines[i + k]) \o <<NL>>]))

MaxRows == 2

\* Headlines of no, one, two and five words, with punctuation.
TrendTitles ==
  {<<>>, <<"a">>, <<"a", DOT, SP, "b">>,
   <<"a", SP, "b", COLON, SP, "c", SP, "d", SP, "e">>}

InterestValues == {0, Threshold, Threshold + 1}

\* The frames interest_over_time can return for a headline: up to MaxRows
\* rows of one interest value for each keyword.
Frames(title) ==
  LET n == Len(extract_keywords(title)) IN
  UNION {[1..r -> [1..n -> InterestValues]] : r \in 0..MaxRows}

InitTrend ==
  /\ PipeIdle /\ SaveIdle /\ ParseIdle /\ SchedIdle
  /\ trendTitle \in TrendTitles
  /\ trendLookup \in {[ok |-> FALSE, df |-> <<>>]}
                       \cup {[ok |-> TRUE, df |-> f] : f \in Frames(trendTitle)}
  /\ trendResult = <<>>

\* The call is_trending(title), for the outcome of the lookup.
CheckTrend ==
  /\ trendResult = <<>>
  /\ trendResult' = <<is_trending(trendTitle, trendLookup)>>
  /\ UNCHANGED <<trendTitle, trendLookup, pipeVars, saveVars, parseVars,
                 schedVars>>

NextTrend == CheckTrend

SpecTrend == InitTrend /\ [][NextTrend]_vars

\* The interest values the frame holds for the headline's keywords.
KeywordValues ==
  {trendLookup.df[r][k] :
     r \in 1..Len(trendLookup.df),
     k \in 1..Min(KeywordLimit, Len(SplitWords(trendTitle)))}

\* C7: is_trending answers True exactly when the lookup succeeds, the frame
\* is not empty and the largest interest value of the headline's keywords is
\* above 20: a largest value of 20 is not trending, one of 21 is.
C7_StrictThreshold ==
  trendResult # <<>> =>
    /\ trendResult[1] =
         (/\ trendLookup.ok
          /\ trendLookup.df # <<>>
          /\ \E v \in KeywordValues : v > 20)
    /\ (trendLookup.ok /\ KeywordValues # {}
          /\ \A v \in KeywordValues : v <= 20) => trendResult[1] = FALSE
    /\ (trendLookup.ok /\ 21 \in KeywordValues) => trendResult[1] = TRUE

\* A headline of more than four words whose largest interest value, over two
\* rows, is exactly 20, has been classified.
C7_Witness ==
  /\ trendResult = <<FALSE>>
  /\ trendLookup.ok
  /\ Len(trendLookup.df) = 2
  /\ Len(SplitWords(trendTitle)) > KeywordLimit
  /\ 20 \in KeywordValues
  /\ \A v \in KeywordValues : v <= 20

\* --------------------------------------------------- start_daily_scheduler

\* Time is counted in ticks of the loop's sleep; a day has DayTicks of them and
\* run_time is tick RunAt of the day.
DayTicks == 3
RunAt == 1
MaxClock == 12

\* The next time of day run_time after now (schedule's every().day.at()).
NextRunAfter(now) ==
  CHOOSE t \in (now + 1)..(now + DayTicks) : t % DayTicks = RunAt % DayTicks

InitSched ==
  /\ PipeIdle /\ SaveIdle /\ ParseIdle /\ TrendIdle
  /\ clock \in 0..(DayTicks - 1)
  /\ next_run = NextRunAfter(clock)
  /\ loopPc = "run_pending"
  /\ active = 0
  /\ jobStart = 0

\* The job started in a thread of its own: the loop does not wait for it.
RunPendingThreaded ==
  /\ loopPc = "run_pending"
  /\ clock >= next_run
  /\ active' = active + 1
  /\ jobStart' = clock
  /\ next_run' = NextRunAfter(clock)
  /\ loopPc' = "sleep"
  /\ UNCHANGED <<clock, pipeVars, saveVars, parseVars, trendVars>>

\* Line 305, the job due: run_pending calls the job, asyncio.run of the
\* pipeline (line 302), and waits in the call.
RunPendingDue ==
  /\ loopPc = "run_pending"
  /\ clock >= next_run
  /\ active' = active + 1
  /\ jobStart' = clock
  /\ loopPc' = "in_job"
  /\ UNCHANGED <<clock, next_run, pipeVars, saveVars, parseVars, trendVars>>

\* Line 305, no job due.
RunPendingIdle ==
  /\ loopPc = "run_pending"
  /\ clock < next_run
  /\ loopPc' = "sleep"
  /\ UNCHANGED <<clock, next_run, active, jobStart, pipeVars, saveVars,
                 parseVars, trendVars>>

\* Time passes while the pipeline runs.
JobTick ==
  /\ active > 0
  /\ clock < MaxClock
  /\ clock' = clock + 1
  /\ UNCHANGED <<next_run, loopPc, active, jobStart, pipeVars, saveVars,
                 parseVars, trendVars>>

\* The pipeline run returns: the job is scheduled again, from now.
JobReturns ==
  /\ active > 0
  /\ active' = active - 1
  /\ next_run' = IF loopPc = "in_job" THEN NextRunAfter(clock) ELSE next_run
  /\ loopPc' = IF loopPc = "in_job" THEN "sleep" ELSE loopPc
  /\ UNCHANGED <<clock, jobStart, pipeVars, saveVars, parseVars, trendVars>>

\* The pipeline run raises: nothing catches it, and the loop ends with it.
JobRaises ==
  /\ active > 0
  /\ active' = active - 1
  /\ loopPc' = IF loopPc = "in_job" THEN "dead" ELSE loopPc
  /\ UNCHANGED <<clock, next_run, jobStart, pipeVars, saveVars, parseVars,
                 trendVars>>

\* Line 306: time.sleep(1).
Sleep ==
  /\ loopPc = "sleep"
  /\ clock < MaxClock
  /\ clock' = clock + 1
  /\ loopPc' = "run_pending"
  /\ UNCHANGED <<next_run, active, jobStart, pipeVars, saveVars, parseVars,
                 trendVars>>

NextSched ==
  \/ RunPendingDue
  \/ RunPendingIdle
  \/ JobTick
  \/ JobReturns
  \/ JobRaises
  \/ Sleep

SpecSched == InitSched /\ [][NextSched]_vars

\* A time of day run_time has come since the run in progress started.
TickDueDuringRun ==
  /\ active > 0
  /\ \E t \in (jobStart + 1)..clock : t % DayTicks = RunAt % DayTicks

\* C10: overlapping runs are not guarded against: when a schedule tick comes
\* due while a pipeline run is in progress, a second run can start and execute
\* concurrently with the first.
C10_SecondRunCanStart == TickDueDuringRun => ENABLED RunPendingDue

\* C10 as amended: runs never overlap.  The loop waits inside run_pending for
\* the run it started, so no run starts while one is in progress, also when a
\* schedule tick comes due meanwhile.
C10_RunsNeverOverlap ==
  /\ active <= 1
  /\ active = 1 <=> loopPc = "in_job"
  /\ active = 1 => ~ENABLED RunPendingDue

\* A schedule tick has come due while a run is in progress.
C10_Witness == TickDueDuringRun /\ loopPc = "in_job"

\* ------------------------------------------------- claims on the pipeline

\* The sheets this run has added to the file, and their data rows in order.
NewSheets == SubSeq(file.sheets, startSheets + 1, Len(file.sheets))

DataRows(ws) == Tail(ws.rows)

NewRows == Flatten([i \in 1..Len(NewSheets) |-> DataRows(NewSheets[i])])

Running == pc \in {"fetch", "entries", "save", "done"}

\* The rows of all the article records this run has collected so far.
RunRows ==
  NewRows \o (IF pc \in {"entries", "save"}
                THEN [i \in 1..Len(articles) |-> ArticleRow(articles[i])]
                ELSE <<>>)

\* C1: a title found in the first column of a data row at the start of a run
\* is, in that run and in every later one, never passed to is_trending, never
\* passed to summarize_and_tag and never written to a new sheet; the empty
\* title included.
C1_NeverReprocessed ==
  \A t \in seenAtStart :
    /\ t \notin Range(trendCalls)
    /\ t \notin Range(geminiCalls)
    /\ \A i \in 1..Len(NewRows) : NewRows[i][1] # t

\* The same for the titles that are not empty.
NonEmptyNeverReprocessed ==
  \A t \in seenAtStart \ {<<>>} :
    /\ t \notin Range(trendCalls)
    /\ t \notin Range(geminiCalls)
    /\ \A i \in 1..Len(NewRows) : NewRows[i][1] # t

NonEmptySkipped ==
  /\ pc = "done"
  /\ \E i \in 1..Len(feed) : Strip(feed[i].title) \in seenAtStart \ {<<>>}

\* The entries of the feed that are not duplicates, in feed order.
NonDuplicates(entries) ==
  LET IsNew(e) == Strip(e.title) \notin existing_headlines
  IN SelectSeq(entries, IsNew)

\* The last feed's batch has been written and nothing has happened since.
JustSaved == pc \in {"fetch", "done"} /\ done # <<>> /\ Last(done).n > 0

\* C2: in a run, for every feed, the batch holds exactly the first min(3, k)
\* of the feed's k non-duplicate entries, in feed order: skipped duplicates do
\* not count.  Exactly these are trend-checked, and exactly these are written
\* to the source's sheet.
C2_FirstThreeNonDuplicates ==
  Running =>
    LET new == NonDuplicates(feed)
        m == Min(BatchLimit, Len(new))
    IN /\ Len(articles) = m
       /\ \A i \in 1..m :
            /\ articles[i].Title = Strip(new[i].title)
            /\ articles[i].Link = new[i].link
       /\ pc \in {"entries", "save"} =>
            /\ Len(trendCalls) >= m
            /\ SubSeq(trendCalls, Len(trendCalls) - m + 1, Len(trendCalls))
                 = [i \in 1..m |-> Strip(new[i].title)]
       /\ JustSaved =>
            /\ Last(file.sheets).title.source = Last(done).source
            /\ DataRows(Last(file.sheets))
                 = [i \in 1..m |-> ArticleRow(articles[i])]
            /\ Len(trendCalls) = Len(NewRows)

\* A feed with a duplicate, which was skipped, and more than 3 non-duplicate
\* entries has been cut to 3 and written.
C2_Witness ==
  /\ JustSaved
  /\ Len(NonDuplicates(feed)) > BatchLimit
  /\ Len(feed) > Len(NonDuplicates(feed))
  /\ Len(articles) = BatchLimit
  /\ Len(DataRows(Last(file.sheets))) = BatchLimit

\* An iteration in which the trend lookup raises.
TrendFailure ==
  \E entry \in FeedEntries, gemini \in GeminiOutcomes :
    ProcessWith(entry, [ok |-> FALSE, df |-> <<>>], gemini)

\* An iteration in which the headline is trending and generate_content raises.
GeminiFailure ==
  \E entry \in FeedEntries :
    \E lookup \in TrendLookups(Strip(entry.title)) :
      /\ is_trending(Strip(entry.title), lookup)
      /\ ProcessWith(entry, lookup, [ok |-> FALSE, text |-> <<>>])

AllEmpty(a) ==
  /\ a.Summary = <<>> /\ a.Tags = <<>>
  /\ a.Reporter_Explanation = <<>> /\ a.Hook_30s = <<>>

\* C5: a failure caught in is_trending gives Not Trending, one caught in
\* summarize_and_tag gives four empty strings; in both cases the loop goes on
\* with the record of the entry collected, and every collected batch is
\* written as it is.
C5_FailuresNeutralized ==
  /\ [][TrendFailure =>
          /\ pc' = "entries"
          /\ SubSeq(articles', 1, Len(articles)) = articles
          /\ Len(articles') = Len(articles) + 1
          /\ Last(articles').Trend_Status = "Not Trending"
          /\ AllEmpty(Last(articles'))
          /\ geminiCalls' = geminiCalls]_vars
  /\ [][GeminiFailure =>
          /\ pc' = "entries"
          /\ SubSeq(articles', 1, Len(articles)) = articles
          /\ Len(articles') = Len(articles) + 1
          /\ Last(articles').Trend_Status = "Trending"
          /\ AllEmpty(Last(articles'))]_vars
  /\ [][pc = "save" /\ pc' \in {"fetch", "done"} /\ articles # <<>> =>
          DataRows(Last(file'.sheets))
            = [i \in 1..Len(articles) |-> ArticleRow(articles[i])]]_vars

\* A generative failure and then a trend failure in one feed: the records of
\* both are in its sheet, and the run has gone on to collect from a later
\* feed.
C5_Witness ==
  /\ pc = "entries"
  /\ Len(done) >= 1
  /\ \E i, j \in 1..Len(NewRows) :
       /\ i < j
       /\ NewRows[i][8] = "Trending" /\ NewRows[i][4] = <<>>
       /\ NewRows[j][8] = "Not Trending"
  /\ articles # <<>>

\* C6: summarize_and_tag is called exactly once for each entry the trend check
\* found trending and for no other; a Not Trending record has empty summary,
\* tags, explanation and hook.
C6_EnrichTrendingOnly ==
  Running =>
    /\ trendCalls = [i \in 1..Len(RunRows) |-> RunRows[i][1]]
    /\ LET IsTrendingRow(r) == r[8] = "Trending"
           trendingRows == SelectSeq(RunRows, IsTrendingRow)
       IN geminiCalls = [i \in 1..Len(trendingRows) |-> trendingRows[i][1]]
    /\ \A i \in 1..Len(RunRows) :
         RunRows[i][8] = "Not Trending" =>
           /\ RunRows[i][4] = <<>> /\ RunRows[i][5] = <<>>
           /\ RunRows[i][6] = <<>> /\ RunRows[i][7] = <<>>

\* A run has collected an enriched trending record and a not trending one.
C6_Witness ==
  /\ pc = "done"
  /\ \E i, j \in 1..Len(RunRows) :
       /\ RunRows[i][8] = "Trending" /\ RunRows[i][4] # <<>>
       /\ RunRows[j][8] = "Not Trending"
  /\ Len(geminiCalls) < Len(trendCalls)

\* C8: no two article records one run collects and writes have the same
\* title.
C8_TitlesUniqueInRun ==
  \A i, j \in 1..Len(NewRows) : i # j => NewRows[i][1] # NewRows[j][1]

\* C9: at every point of a run, a failed run included, the feeds finished are
\* a prefix of the declared order and the sheets the run has committed are
\* those of the finished feeds with a non-empty batch, in that order, each
\* with its batch's rows; the feed in progress has committed nothing.
C9_CommittedPrefix ==
  LET IsCommitted(d) == d.n > 0
      committed == SelectSeq(done, IsCommitted)
  IN /\ Len(done) <= Len(rss_sources)
     /\ \A i \in 1..Len(done) : done[i].source = rss_sources[i]
     /\ pc \in {"entries", "save"} => srcIdx = Len(done) + 1
     /\ Len(NewSheets) = Len(committed)
     /\ \A k \in 1..Len(committed) :
          /\ NewSheets[k].title.source = committed[k].source
          /\ Len(DataRows(NewSheets[k])) = committed[k].n

\* A run ended by a failure in its third feed, after a first feed with an
\* empty batch and a second whose sheet is committed.
C9_Witness ==
  /\ pc = "crashed"
  /\ Len(done) = 2
  /\ done[1].n = 0
  /\ done[2].n > 0
  /\ Len(NewSheets) = 1

====
